---- MODULE Spec2Model ----
(***************************************************************************)
(* A model of the VIPER radial-velocity code (CRIRES_RV):                  *)
(*   - viper.py      : the six-stage fit of one chunk (fit_chunk), the     *)
(*                     loop over orders and the cross-chunk aggregate;     *)
(*   - model.py      : the kernel library (IP, IP_sg, ...), the forward    *)
(*                     model evaluator (model.__call__), the generic fit   *)
(*                     wrapper (model.fit) and the band variant            *)
(*                     (model_bnd).                                        *)
(* Floating-point numbers are modelled as tagged values: a finite value is *)
(* an exact fraction, and the two non-finite outcomes of IEEE arithmetic   *)
(* (not-a-number, infinity) are values of their own.                       *)
(***************************************************************************)
EXTENDS Integers, Sequences, FiniteSets, TLC

VARIABLES
    \* ---- viper.py: the script -------------------------------------------
    pc,        \* position of the script: "fit", "agg", "end", "raised"
    i_o,       \* index of the order being fitted (1-based; enumerate(orders))
    stage,     \* number of solver stages of the current chunk already run
    runs,      \* the solver calls of the current chunk, in execution order
    rvo,       \* fit_chunk's local rvo
    e_rvo,     \* fit_chunk's local e_rvo
    rv,        \* module-level array rv
    e_rv,      \* module-level array e_rv
    RV,        \* aggregate RV
    e_RV,      \* aggregate error (its square, see StdErr2)
    rvofile,   \* what was written to tmp.rvo.dat (<<>> while unwritten)
    failed,    \* history: the chunks in which a solver call failed
    \* ---- model.py: model.fit --------------------------------------------
    fitPc,     \* position of model.fit: "start", "solving", "returned", "raised"
    fitIn,     \* the arguments of model.fit
    fitSl,     \* the slices sv, sa, sb, ss, st, sc
    fitOpt,    \* the p0, sigma and epsfcn handed to curve_fit
    fitCall,   \* the last call of the evaluator: the vector and the binding
    fitRet,    \* what model.fit returns
    \* ---- model.py: the kernel library -----------------------------------
    ipGrid,    \* the velocity grid vk handed to the kernel functions
    ipRes,     \* the last kernel call: function, arguments, sum, result
    \* ---- model.py: the evaluator (model, model_bnd) ---------------------
    self,      \* the evaluator instance: the attributes set by __init__, base
    self0,     \* history: the instance as __init__ left it
    ev,        \* per caller: the call in progress, its arguments, its result
    \* ---- convert_output.py: convert_data -------------------------------
    cvPc,      \* position in __init__: "fits", "cpl", "cpl2", "final", "done", "raised"
    cvIn,      \* the arguments and the .dat files read by genfromtxt
    cvFiles,   \* the files on disk: <filename>_rvo_par.fits, <filename>.fits
    \* ---- inst/inst_CRIRES.py: the template file ------------------------
    tplIn,     \* write_fits arguments: the orders of tpl_all, file_in, pycpl
    tplPc,     \* the detector the writing loop is at, past the last after the loop
    tplMem,    \* the tables in memory, by detector
    tplOut,    \* the extensions of <file_out>_tpl.fits on disk, by detector
    tplRead    \* the last call of Tpl: the order and what it read

mainVars == <<pc, i_o, stage, runs, rvo, e_rvo, rv, e_rv, RV, e_RV, rvofile, failed>>

fitVars == <<fitPc, fitIn, fitSl, fitOpt, fitCall, fitRet>>

ipVars == <<ipGrid, ipRes>>

evVars == <<self, self0, ev>>

cvVars == <<cvPc, cvIn, cvFiles>>

tplVars == <<tplIn, tplPc, tplMem, tplOut, tplRead>>

vars == <<mainVars, fitVars, ipVars, evVars, cvVars, tplVars>>

-----------------------------------------------------------------------------
(* Numbers *)

\* a finite float, as the exact fraction n/d (d > 0)
Fin(n) == [k |-> "fin", n |-> n, d |-> 1]
Frac(n, d) == [k |-> "fin", n |-> n, d |-> d]
NaN == [k |-> "nan", n |-> 0, d |-> 1]
Inf == [k |-> "inf", n |-> 0, d |-> 1]
\* the content of an array made by np.empty_like before it is assigned
Uninit == [k |-> "uninit", n |-> 0, d |-> 1]

\* np.isfinite
isfinite(x) == x.k = "fin"
\* np.isnan
isnan(x) == x.k = "nan"
\* equality of two floats as values (NaN is a state here, not IEEE ==)
SameNum(x, y) ==
    IF x.k = "fin" /\ y.k = "fin" THEN x.n * y.d = y.n * x.d ELSE x.k = y.k

RECURSIVE SeqSum(_)
SeqSum(s) == IF s = <<>> THEN 0 ELSE Head(s) + SeqSum(Tail(s))

RECURSIVE SeqMap2Sum(_)
\* sum of the squares of a sequence of integers
SeqMap2Sum(s) == IF s = <<>> THEN 0 ELSE Head(s) * Head(s) + SeqMap2Sum(Tail(s))

\* the elements of array a at the positions where the mask is TRUE: a[ii]
RECURSIVE Masked(_, _)
Masked(a, ii) ==
    IF a = <<>> THEN <<>>
    ELSE (IF Head(ii) THEN <<Head(a)>> ELSE <<>>) \o Masked(Tail(a), Tail(ii))

RECURSIVE Numerators(_)
Numerators(a) == IF a = <<>> THEN <<>> ELSE <<Head(a).n>> \o Numerators(Tail(a))

AllFinite(a) == \A j \in 1..Len(a) : isfinite(a[j])

\* np.mean of an array of floats: nan for the empty array, nan as soon as one
\* element is not finite, the exact mean otherwise
Mean(a) ==
    IF Len(a) = 0 \/ ~AllFinite(a) THEN NaN
    ELSE Frac(SeqSum(Numerators(a)), Len(a))

\* (np.std(a) / (n-1)**0.5) squared, n = Len(a): nan for n = 0 (std of nothing,
\* and (-1)**0.5), nan for n = 1 (0.0/0.0), and for n >= 2
\* var/(n-1) = (n*Sum(x^2) - Sum(x)^2) / (n^2 (n-1))
StdErr2(a) ==
    IF Len(a) < 2 \/ ~AllFinite(a) THEN NaN
    ELSE Frac(Len(a) * SeqMap2Sum(Numerators(a))
                - SeqSum(Numerators(a)) * SeqSum(Numerators(a)),
              Len(a) * Len(a) * (Len(a) - 1))

-----------------------------------------------------------------------------
(* viper.py: fit_chunk *)

\* the number of orders of the run (orders = np.arange(18,30) has 12)
NOrders == 3
\* the RVs a converged solver may return; an RV is in km/s
MaxRV == 3
RVals == {1, MaxRV}
\* the number of solver stages of fit_chunk
NStages == 6

\* a value the script sets itself: a constant, a prior or a default
Prior(l) == <<"prior", 0, l>>
\* the value of parameter n fitted by stage k
Fit(k, n) == <<"fit", k, n>>

\* StageFree with the last lambda written without its IP width s
StageFreeNoWidth(k) ==
    CASE k = 1 -> <<"a0">>
      [] k = 2 -> <<"b0", "b1", "b2", "b3">>
      [] k = 3 -> <<"v", "a0", "b0", "b1", "b2", "b3">>
      [] k = 4 -> <<"v", "a0", "b0", "b1", "b2", "b3">>
      [] k = 5 -> <<"v", "a0", "b0", "b1", "b2", "b3", "s">>
      [] k = 6 -> <<"v", "a0", "b0", "b1", "b2", "b3">>

\* the arguments of the lambda that stage k hands to curve_fit, without x
StageFree(k) ==
    CASE k = 1 -> <<"a0">>                                            \* S_a
      [] k = 2 -> <<"b0", "b1", "b2", "b3">>                          \* S_b
      [] k = 3 -> <<"v", "a0", "b0", "b1", "b2", "b3">>               \* S_vab
      [] k = 4 -> <<"v", "a0", "b0", "b1", "b2", "b3">>               \* S_va
      [] k = 5 -> <<"v", "a0", "b0", "b1", "b2", "b3", "s">>          \* S_vabs
      [] k = 6 -> <<"v", "a0", "a1", "a2", "a3",
                    "b0", "b1", "b2", "b3", "s">>                     \* S

\* popt of stage k: one fitted value per argument of the lambda, in order
Popt(k) == [j \in 1..Len(StageFree(k)) |-> Fit(k, StageFree(k)[j])]

\* bg = np.polyfit(i[s_obs], w_i[s_obs], 3)[::-1]
bg == <<Prior("bg0"), Prior("bg1"), Prior("bg2"), Prior("bg3")>>

\* Python's a[lo:hi] on a sequence (0-based, hi excluded)
Slice(a, lo, hi) == SubSeq(a, lo + 1, hi)

\* p0 of stage k, given p, the popt of the stages already run
StageP0(k, p) ==
    CASE k = 1 -> <<Prior("ones")>>                     \* no p0: curve_fit's ones
      [] k = 2 -> bg                                     \* p0=bg
      [] k = 3 -> <<Prior("v0"), Prior("1")>> \o bg      \* p0=[v, 1, *bg]
      [] k = 4 -> <<Prior("v0"), Prior("1")>> \o Slice(p[3], 2, 6)
                                                         \* p0=[v, 1,*p_vab[2:6]]
      [] k = 5 -> p[4] \o <<Prior("2.2")>>               \* p0=[*p_va, 2.2]
      [] k = 6 -> Slice(p[5], 0, 2) \o <<Prior("0"), Prior("0"), Prior("0")>>
                    \o Slice(p[5], 2, Len(p[5]))
                                      \* p0=[*p_vabs[:2]]+[0]*3+[*p_vabs[2:]]

\* what the lambda of stage k passes to S_mod besides its own arguments, as
\* <<name, value>> pairs: the locals v, a, b, s at the time of the call, or the
\* literal written in the lambda
StageFixed(k, p) ==
    CASE k = 1 -> << <<"v", Prior("0")>>, <<"b0", Prior("w_i[0]")>>,
                     <<"b1", Prior("slope")>>, <<"s", Prior("2.5")>> >>
      [] k = 2 -> << <<"v", Prior("v0")>>, <<"a0", p[1][1]>>,
                     <<"s", Prior("2.5")>> >>
      [] k = 3 -> << <<"s", Prior("2.2")>> >>
      [] k = 4 -> << <<"s", Prior("2.2")>> >>
      [] k = 5 -> << >>
      [] k = 6 -> << >>

\* the pixels of an order (i = np.arange(f_i.size)), and the 100 km/s margin.
\* The log-wavelength axis is counted in steps of 1 km/s / c, and pixel i of
\* the observation lies at log-wavelength i
NPix == 2048
Margin == 100

\* np.searchsorted(np.log(w_i), v): the number of pixels below v
searchsorted(n, v) == IF v < 0 THEN 0 ELSE IF v > n THEN n ELSE v

\* line 111: s_obs = slice(*np.searchsorted(np.log(w_i),
\* [xj[0]+100/c, xj[-1]-100/c])) for a grid xj from xj[1] to xj[2]
Trim(xj) == <<searchsorted(NPix, xj[1] + Margin), searchsorted(NPix, xj[2] - Margin)>>

\* i[slice(lo, hi)] on the NPix pixels of the order
PySliceRange(lo, hi) == <<searchsorted(NPix, lo), searchsorted(NPix, hi)>>

\* the pixel range i[s_obs] of stage k, as <<first, one past the last>>: the
\* trim of line 111 up to stage 3, slice(400,1700) from line 158 on
StagePixels(k, xj) == IF k <= 3 THEN Trim(xj) ELSE PySliceRange(400, 1700)

\* the first and last knot xj[0], xj[-1] of the log-grid of a chunk
XjRanges == {<<-200, 2300>>, <<300, 1900>>, <<500, 1500>>}

\* the grid of the chunk: chosen when its first stage runs, kept afterwards
XjOf(k, rs, xj) == IF k = 1 THEN xj ELSE rs[1].xj

\* the epsfcn given to curve_fit by stage k
StageEpsfcn(k) == IF k <= 4 THEN "default" ELSE "1e-12"

\* the popt of the stages run so far, by stage number
PoptOf(rs) == [k \in 1..Len(rs) |-> rs[k].popt]

\* the solver calls fit_chunk has made when stage k starts: none at stage 1,
\* every call of fit_chunk starting afresh
Before(k, rs) == IF k = 1 THEN <<>> ELSE rs

\* the record of one curve_fit call
Run(k, rs, outcome, xj) ==
    [free    |-> StageFree(k),
     p0      |-> StageP0(k, PoptOf(rs)),
     fixed   |-> StageFixed(k, PoptOf(rs)),
     xj      |-> XjOf(k, rs, xj),
     pixels  |-> StagePixels(k, XjOf(k, rs, xj)),
     epsfcn  |-> StageEpsfcn(k),
     popt    |-> IF outcome = "raise" THEN <<>> ELSE Popt(k)]

\* e_rvo = np.diag(e_p_vabs)[0]**0.5 : finite for a finite variance, inf when
\* curve_fit could not estimate the covariance and filled it with inf
ErrOf(outcome) == IF outcome = "ok" THEN Fin(1) ELSE Inf

\* what a chunk's solver failure leaves in rv[i], e_rv[i]: nothing is
\* assigned when curve_fit raises, since fit_chunk has no handler
OnRaise(a, i) == a

\* curve_fit of stage k returns (converged, or with a covariance it could not
\* estimate); stages 5 and 6 assign rvo, e_rvo; stage 6 returns from
\* fit_chunk, and the loop stores the pair and goes on to the next order
Solve(k, outcome, r, xj) ==
    /\ pc = "fit"
    /\ stage = k - 1
    /\ outcome \in {"ok", "singular"}
    /\ k > 1 => xj = runs[1].xj
    /\ runs' = Append(Before(k, runs), Run(k, Before(k, runs), outcome, xj))
    /\ failed' = IF outcome = "singular" THEN failed \cup {i_o} ELSE failed
    /\ IF k >= 5
         THEN rvo' = Fin(r) /\ e_rvo' = ErrOf(outcome)
         ELSE UNCHANGED <<rvo, e_rvo>>
    /\ IF k = NStages
         THEN /\ rv' = [rv EXCEPT ![i_o] = rvo']
              /\ e_rv' = [e_rv EXCEPT ![i_o] = e_rvo']
              /\ stage' = 0
              /\ i_o' = i_o + 1
              /\ pc' = IF i_o = NOrders THEN "agg" ELSE "fit"
         ELSE /\ stage' = k
              /\ UNCHANGED <<rv, e_rv, i_o, pc>>
    /\ UNCHANGED <<RV, e_RV, rvofile>>
    /\ UNCHANGED <<fitVars, ipVars, evVars, cvVars, tplVars>>

\* curve_fit of stage k raises RuntimeError (no convergence): nothing in
\* fit_chunk or in the loop catches it, the script ends with the traceback
SolveRaises(k, xj) ==
    /\ pc = "fit"
    /\ stage = k - 1
    /\ k > 1 => xj = runs[1].xj
    /\ runs' = Append(Before(k, runs), Run(k, Before(k, runs), "raise", xj))
    /\ failed' = failed \cup {i_o}
    /\ rv' = OnRaise(rv, i_o)
    /\ e_rv' = OnRaise(e_rv, i_o)
    /\ pc' = "raised"
    /\ UNCHANGED <<i_o, stage, rvo, e_rvo, RV, e_RV, rvofile>>
    /\ UNCHANGED <<fitVars, ipVars, evVars, cvVars, tplVars>>

-----------------------------------------------------------------------------
(* viper.py: the aggregate over the chunks *)

\* ii = np.isfinite(e_rv)
ValidMask(e) == [j \in 1..Len(e) |-> isfinite(e[j])]

\* RV = np.mean(rv[ii])
AggregateRV(r, e) == Mean(Masked(r, ValidMask(e)))

\* e_RV = np.std(rv[ii])/(ii.sum()-1)**0.5  (squared)
AggregateErr2(r, e) == StdErr2(Masked(r, ValidMask(e)))

\* print (bjd, RV, e_RV, *sum(zip(rv, e_rv),()), file=rvounit)
RvoLine(R, eR, r, e) == <<Fin(0), R, eR>> \o r \o e

\* lines 187-195: mask, mean, error, print, and the line written to tmp.rvo.dat
Aggregate ==
    /\ pc = "agg"
    /\ RV' = AggregateRV(rv, e_rv)
    /\ e_RV' = AggregateErr2(rv, e_rv)
    /\ rvofile' = RvoLine(RV', e_RV', rv, e_rv)
    /\ pc' = "end"
    /\ UNCHANGED <<i_o, stage, runs, rvo, e_rvo, rv, e_rv, failed>>
    /\ UNCHANGED <<fitVars, ipVars, evVars, cvVars, tplVars>>

MainInit ==
    /\ pc = "fit"
    /\ i_o = 1
    /\ stage = 0
    /\ runs = <<>>
    /\ rvo = Uninit
    /\ e_rvo = Uninit
    /\ rv = [j \in 1..NOrders |-> Uninit]
    /\ e_rv = [j \in 1..NOrders |-> Uninit]
    /\ RV = Uninit
    /\ e_RV = Uninit
    /\ rvofile = <<>>
    /\ failed = {}

\* the script is not running
MainOff ==
    /\ pc = "off"
    /\ i_o = 0
    /\ stage = 0
    /\ runs = <<>>
    /\ rvo = Uninit
    /\ e_rvo = Uninit
    /\ rv = <<>>
    /\ e_rv = <<>>
    /\ RV = Uninit
    /\ e_RV = Uninit
    /\ rvofile = <<>>
    /\ failed = {}

\* no model.fit is running
FitOff ==
    /\ fitPc = "off"
    /\ fitIn = <<>>
    /\ fitSl = <<>>
    /\ fitOpt = <<>>
    /\ fitCall = <<>>
    /\ fitRet = <<>>

\* no kernel has been computed
IPOff ==
    /\ ipGrid = <<>>
    /\ ipRes = <<>>

\* no evaluator has been made
EvalOff ==
    /\ self = <<>>
    /\ self0 = <<>>
    /\ ev = <<>>

\* no conversion is running
CvOff ==
    /\ cvPc = "off"
    /\ cvIn = <<>>
    /\ cvFiles = <<>>

\* no template file is written or read
TplOff ==
    /\ tplIn = <<>>
    /\ tplPc = 0
    /\ tplMem = <<>>
    /\ tplOut = <<>>
    /\ tplRead = <<>>

Init == MainInit /\ FitOff /\ IPOff /\ EvalOff /\ CvOff /\ TplOff

Next ==
    \/ \E k \in 1..NStages, o \in {"ok", "singular"}, r \in RVals, xj \in XjRanges :
          Solve(k, o, r, xj)
    \/ \E k \in 1..NStages, xj \in XjRanges : SolveRaises(k, xj)
    \/ Aggregate

Spec == Init /\ [][Next]_vars

-----------------------------------------------------------------------------
(* model.py: model.fit *)

\* the parameter groups, in the order of the evaluator's arguments
Groups == <<"rv", "norm", "wave", "ip", "atm", "bkg">>
NGroups == 6

\* the longest free sub-vector and the longest fixed tuple of a group
MaxFree == 2
MaxFix == 1
\* the lengths tried for a group: none, one, the longest
FreeLens == {0, 1, MaxFree}
FixLens == {0, MaxFix}

\* the i-th free start value, the i-th fixed value of group g; the i-th entry
\* of a vector the solver makes (a trial vector "x", popt "opt"), and the
\* entry (i,i) of the covariance
FreeVal(g, i) == <<"free", g, i>>
FixVal(g, i) == <<"fix", g, i>>
SolverVal(what, i) == <<what, "", i>>

\* a positional argument of the evaluator: a float, or a tuple of floats
Float(x) == [float |-> TRUE, val |-> <<x>>]
Tuple(t) == [float |-> FALSE, val |-> t]

\* the slices, as <<start, stop>> pairs, for free sub-vectors par
\*   sv = slice(0, len(par_rv)); sa = slice(sv.stop, sv.stop+len(par_norm)); ...
\* SliceOf with the IP slice started at sa.stop instead of sb.stop
RECURSIVE SliceOfShifted(_, _)
SliceOfShifted(par, j) ==
    IF j = 1 THEN <<0, Len(par[Groups[1]])>>
    ELSE IF j = 4 THEN <<SliceOfShifted(par, 2)[2],
                         SliceOfShifted(par, 2)[2] + Len(par[Groups[j]])>>
    ELSE <<SliceOfShifted(par, j-1)[2],
           SliceOfShifted(par, j-1)[2] + Len(par[Groups[j]])>>

RECURSIVE SliceOf(_, _)
SliceOf(par, j) ==
    IF j = 1 THEN <<0, Len(par[Groups[1]])>>
    ELSE <<SliceOf(par, j-1)[2], SliceOf(par, j-1)[2] + Len(par[Groups[j]])>>

\* params[s] for a slice s
Sliced(params, s) == SubSeq(params, s[1] + 1, s[2])

\* [*par_rv, *par_norm, *par_wave, *par_ip, *par_atm, *par_bkg]
RECURSIVE Flat(_, _)
Flat(par, j) == IF j = 0 THEN <<>> ELSE Flat(par, j-1) \o par[Groups[j]]

\* [*x for the floats of a tuple t]: the unpacking of the RV group
Unpack(t) == [i \in 1..Len(t) |-> Float(t[i])]

\* the argument list of line 166 and the list of line 172:
\*   *params[sv]+parfix_rv, params[sa]+parfix_norm, ..., params[sc]+parfix_bkg
Reassemble(params, sl, fix) ==
    Unpack(Sliced(params, sl[1]) \o fix[Groups[1]])
      \o [j \in 1..(NGroups - 1) |->
            Tuple(Sliced(params, sl[j+1]) \o fix[Groups[j+1]])]

\* Reassemble with the fixed values put before the free ones
ReassembleFixedFirst(params, sl, fix) ==
    Unpack(fix[Groups[1]] \o Sliced(params, sl[1]))
      \o [j \in 1..(NGroups - 1) |->
            Tuple(fix[Groups[j+1]] \o Sliced(params, sl[j+1]))]

\* model.__call__(self, pixel, rv, coeff_norm, coeff_wave, coeff_ip, coeff_atm,
\* coeff_bkg=[0]): the values its six parameters get from the positional
\* arguments args (after pixel), <<>> when Python raises TypeError (an
\* argument missing, or one too many)
Bind(args) ==
    IF Len(args) = NGroups THEN args
    ELSE IF Len(args) = NGroups - 1 THEN args \o <<Tuple(<<Prior("0")>>)>>
    ELSE <<>>

\* the trial vectors and popt of the solver, for n free parameters
SolverVector(what, n) == [i \in 1..n |-> SolverVal(what, i)]

\* lines 152-166 and the start of line 168: the slices, and p0, sigma, epsfcn
FitStart ==
    /\ fitPc = "start"
    /\ fitSl' = [j \in 1..NGroups |-> SliceOf(fitIn.par, j)]
    /\ fitOpt' = [p0 |-> Flat(fitIn.par, NGroups), epsfcn |-> "1e-12",
                  absolute_sigma |-> FALSE]
    /\ fitPc' = "solving"
    /\ UNCHANGED <<fitIn, fitCall, fitRet>>
    /\ UNCHANGED <<mainVars, ipVars, evVars, cvVars, tplVars>>

\* curve_fit calls S_model(x, *params) with a vector of its own; a TypeError
\* of the evaluator call leaves curve_fit and model.fit
FitEvaluate ==
    /\ fitPc = "solving"
    /\ LET params == SolverVector("x", Len(fitOpt.p0))
           bound == Bind(Reassemble(params, fitSl, fitIn.fix))
       IN  /\ fitCall' = [params |-> params, bound |-> bound]
           /\ fitPc' = IF bound = <<>> THEN "raised" ELSE "solving"
    /\ UNCHANGED <<fitIn, fitSl, fitOpt, fitRet>>
    /\ UNCHANGED <<mainVars, ipVars, evVars, cvVars, tplVars>>

\* curve_fit returns popt and pcov after at least one evaluation (with no free
\* parameter at all the least-squares routine refuses its input and raises);
\* lines 170-176: par_rv, the parameter list, show() when kwargs are given
FitReturn ==
    /\ fitPc = "solving"
    /\ fitCall # <<>>
    /\ Len(fitOpt.p0) >= 1
    /\ LET n == Len(fitOpt.p0)
           popt == SolverVector("opt", n)
           diag == SolverVector("var", n)
           params == Reassemble(popt, fitSl, fitIn.fix)
           shown == Bind(params)
       IN  /\ fitRet' = [params |-> params, popt |-> popt, diag |-> diag,
                         par_rv |-> Sliced(popt, fitSl[1]) \o Sliced(diag, fitSl[1])]
           /\ IF fitIn.kwargs
                THEN /\ fitCall' = [params |-> popt, bound |-> shown]
                     /\ fitPc' = IF shown = <<>> THEN "raised" ELSE "returned"
                ELSE /\ fitPc' = "returned"
                     /\ UNCHANGED fitCall
    /\ UNCHANGED <<fitIn, fitSl, fitOpt>>
    /\ UNCHANGED <<mainVars, ipVars, evVars, cvVars, tplVars>>

\* curve_fit raises (no convergence, or improper input)
FitSolverRaises ==
    /\ fitPc = "solving"
    /\ fitPc' = "raised"
    /\ UNCHANGED <<fitIn, fitSl, fitOpt, fitCall, fitRet>>
    /\ UNCHANGED <<mainVars, ipVars, evVars, cvVars, tplVars>>

\* the free sub-vector / fixed tuple of group g with n values
FreeOf(g, n) == [i \in 1..n |-> FreeVal(g, i)]
FixOf(g, n) == [i \in 1..n |-> FixVal(g, i)]

\* the arguments of a call of model.fit: par_rv and parfix_rv are a float or
\* None (lines 152-153 make them tuples of length 1 or 0), the other groups
\* are sequences of any length; kwargs are given or not
FitInit ==
    /\ fitPc = "start"
    /\ \E nf \in [1..NGroups -> FreeLens], nx \in [1..NGroups -> FixLens],
          kw \in BOOLEAN :
          /\ nf[1] <= 1
          /\ nx[1] <= 1
          /\ fitIn = [par |-> [g \in {Groups[j] : j \in 1..NGroups} |->
                                 FreeOf(g, nf[CHOOSE j \in 1..NGroups : Groups[j] = g])],
                      fix |-> [g \in {Groups[j] : j \in 1..NGroups} |->
                                 FixOf(g, nx[CHOOSE j \in 1..NGroups : Groups[j] = g])],
                      kwargs |-> kw]
    /\ fitSl = <<>>
    /\ fitOpt = <<>>
    /\ fitCall = <<>>
    /\ fitRet = <<>>

FitNext == FitStart \/ FitEvaluate \/ FitReturn \/ FitSolverRaises

InitFit == FitInit /\ MainOff /\ IPOff /\ EvalOff /\ CvOff /\ TplOff

SpecFit == InitFit /\ [][FitNext]_vars

-----------------------------------------------------------------------------
(* model.py: the kernel library *)

\* the largest half size of a grid (IP_hs) and its largest step (dx*c, in km/s)
MaxHs == 2
MaxStep == 2
\* the largest width s, and the largest exponent e of the super Gaussian
MaxS == 2
MaxE == 2
\* the largest number of free amplitudes given to IP_mg
MaxAmp == 2
\* np.exp(-q) is a positive float that halves with each unit of q and, like
\* the float, underflows to 0 beyond a cut
ExpCut == 3

\* np.exp(-q) for q >= 0 (q rounded down to a whole number), in units of
\* 2^-ExpCut
ExpNeg(q) == IF q > ExpCut THEN 0 ELSE 2^(ExpCut - q)

\* x / y on floats x (a whole number) and y: a fraction, inf for a non-zero
\* x over 0, nan for 0/0
Div(x, y) ==
    IF y = 0 THEN (IF x = 0 THEN NaN ELSE Inf) ELSE Frac(x, y)

\* the sum of two finite floats
FracAdd(x, y) ==
    IF x.d = y.d THEN Frac(x.n + y.n, x.d) ELSE Frac(x.n * y.d + y.n * x.d, x.d * y.d)

\* a.sum() of an array of floats: nan or inf as soon as an element is
RECURSIVE ArraySum(_)
ArraySum(a) ==
    IF a = <<>> THEN Fin(0)
    ELSE IF ~isfinite(Head(a)) THEN NaN
    ELSE IF ~isfinite(ArraySum(Tail(a))) THEN NaN
    ELSE FracAdd(Head(a), ArraySum(Tail(a)))

\* IP_k / IP_k.max(): a kernel scaled to unit peak instead of unit sum
RECURSIVE SeqMax(_)
SeqMax(w) == IF Len(w) = 1 THEN w[1]
             ELSE IF Head(w) >= SeqMax(Tail(w)) THEN Head(w) ELSE SeqMax(Tail(w))
NormaliseToPeak(w) ==
    [k \in 1..Len(w) |-> Div(w[k], IF w = <<>> THEN 0 ELSE SeqMax(w))]

\* IP_k /= IP_k.sum()
Normalise(w) == [k \in 1..Len(w) |-> Div(w[k], SeqSum(w))]

Abs(x) == IF x < 0 THEN -x ELSE x
Sign(x) == IF x < 0 THEN -1 ELSE IF x > 0 THEN 1 ELSE 0

\* IP(vk, s): np.exp(-(vk/s)**2/2), before the normalisation
GaussProfile(vk, s) == [k \in 1..Len(vk) |-> ExpNeg((vk[k] * vk[k]) \div (2 * s * s))]

\* IP_sg(vk, s, e): np.exp(-abs(vk/s)**e)
SuperGaussProfile(vk, s, e) ==
    [k \in 1..Len(vk) |-> ExpNeg((Abs(vk[k]) ^ e) \div (s ^ e))]

\* IP_ag(vk, s, a) for a in {-1, 0, 1}:  b = a/sqrt(1+a^2)*sqrt(2/pi) is
\* 0.56*a, ss = s/sqrt(1-b^2) is 6s/5 for a # 0 and s for a = 0, ss*b is
\* 2sa/3; vk = (vk + ss*b)/ss; np.exp(-vk**2/2) * (1+erf(a/sqrt(2)*vk)),
\* the erf factor being 0, 1 or 2 with the sign of its argument
SkewProfile(vk, s, a) ==
    [k \in 1..Len(vk) |->
        IF a = 0 THEN ExpNeg((vk[k] * vk[k]) \div (2 * s * s))
        ELSE LET num == 5 * (3 * vk[k] + 2 * s * a)      \* vk' = num / (18 s)
             IN  ExpNeg((num * num) \div (648 * s * s)) * (1 + Sign(a * num))]

\* IP_bg(vk, s1, s2): xc = sqrt(2/pi)*(s2^2-s1^2)/(s1+s2) is 4(s2-s1)/5,
\* vck = vk + xc, np.exp(-0.5*(vck/np.where(vck<0, s1, s2))**2)
BiGaussProfile(vk, s1, s2) ==
    [k \in 1..Len(vk) |->
        LET num == 5 * vk[k] + 4 * (s2 - s1)             \* vck = num / 5
            sel == IF num < 0 THEN s1 ELSE s2
        IN  ExpNeg((num * num) \div (50 * sel * sel))]

\* IP_mcg(vk, s0, a1): s1 = 4*s0; a1 = a1/10; main plus background
\* Gaussian, clipped at 0 (in tenths)
McgProfile(vk, s0, a1) ==
    [k \in 1..Len(vk) |->
        LET y == 10 * ExpNeg((vk[k] * vk[k]) \div (s0 * s0))
                   + a1 * ExpNeg((vk[k] * vk[k]) \div (16 * s0 * s0))
        IN  IF y < 0 THEN 0 ELSE y]

\* np.tanh(a), in quarters, for a in {-20, -1, 0, 1, 20}: tanh(1) is 0.76,
\* and tanh(20) is 1.0 as a float
AmpUnit == 4
Tanh(a) == IF a >= 20 THEN AmpUnit ELSE IF a <= -20 THEN -AmpUnit
           ELSE IF a > 0 THEN 3 ELSE IF a < 0 THEN -3 ELSE 0

\* the unit amplitude put behind the free ones
AmplitudesUnitLast(a) == [i \in 1..Len(a) |-> Tanh(a[i])] \o <<AmpUnit>>

\* a = [*a[:mid], 1, *a[mid:]] with mid = len(a)//2 and a = np.tanh(a)
Amplitudes(a) ==
    LET mid == Len(a) \div 2
        t == [i \in 1..Len(a) |-> Tanh(a[i])]
    IN  SubSeq(t, 1, mid) \o <<AmpUnit>> \o SubSeq(t, mid + 1, Len(t))

\* np.dot(xl, a) with xl = np.arange(na)
RECURSIVE KnotDot(_, _)
KnotDot(amp, n) == IF n = 0 THEN 0 ELSE KnotDot(amp, n - 1) + (n - 1) * amp[n]

\* IP_mg(vk, *a): s = dx = 0.9; xm = np.dot(xl, a) / sum(a);
\* xc = dx*(xl-xm); np.dot(a, np.exp(-((vk-xc)/s)**2)).  With P = dot(xl,a)
\* and Q = sum(a), (vk-xc)/s = (10 vk Q - 9 xl Q + 9 P) / (9 Q).  When Q = 0
\* xm is not finite, and neither is any element.  The result is
\* <<finite?, the profile in quarters>>.
RECURSIVE MgTerm(_, _, _, _, _)
MgTerm(v, amp, P, Q, l) ==
    IF l = 0 THEN 0
    ELSE LET num == 10 * v * Q - 9 * (l - 1) * Q + 9 * P
         IN  MgTerm(v, amp, P, Q, l - 1)
               + amp[l] * ExpNeg((num * num) \div (81 * Q * Q))
MgProfile(vk, a) ==
    LET amp == Amplitudes(a)
        P == KnotDot(amp, Len(amp))
        Q == SeqSum(amp)
    IN  IF Q = 0 THEN <<FALSE, [k \in 1..Len(vk) |-> 0]>>
        ELSE <<TRUE, [k \in 1..Len(vk) |-> MgTerm(vk[k], amp, P, Q, Len(amp))]>>

\* an array of nan as long as a
AllNaN(a) == [k \in 1..Len(a) |-> NaN]

\* the six kernel functions
IP(vk, s) == Normalise(GaussProfile(vk, s))
IP_sg(vk, s, e) == Normalise(SuperGaussProfile(vk, s, e))
IP_ag(vk, s, a) == Normalise(SkewProfile(vk, s, a))
IP_bg(vk, s1, s2) == Normalise(BiGaussProfile(vk, s1, s2))
IP_mcg(vk, s0, a1) == Normalise(McgProfile(vk, s0, a1))
IP_mg(vk, a) ==
    IF MgProfile(vk, a)[1] THEN Normalise(MgProfile(vk, a)[2]) ELSE AllNaN(vk)

\* vk = np.arange(-IP_hs, IP_hs+1) * dx * c
Grid(h, step) == [k \in 1..(2 * h + 1) |-> (k - h - 1) * step]
Grids == {Grid(h, st) : h \in 0..MaxHs, st \in 1..MaxStep}

Widths == 1..MaxS
Skews == {-1, 0, 1}
McgAmps == {-10, 0, 1, 10}
MgInputs == {-20, -1, 0, 1, 20}
MgArgs == UNION {[1..n -> MgInputs] : n \in 0..MaxAmp}

\* the record of a kernel call: the sum before the normalisation is kept.
\* The kernel functions keep nothing between calls, so one call is followed
\* per grid
KernelCall(f, args, finite, profile, kernel) ==
    [f |-> f, args |-> args,
     sum |-> IF finite THEN Fin(SeqSum(profile)) ELSE NaN,
     kernel |-> kernel]

CallIP ==
    \E s \in Widths :
        /\ ipRes = <<>>
        /\ ipRes' = KernelCall("IP", <<s>>, TRUE, GaussProfile(ipGrid, s), IP(ipGrid, s))
        /\ UNCHANGED <<ipGrid, mainVars, fitVars, evVars, cvVars, tplVars>>
CallIP_sg ==
    \E s \in Widths, e \in 1..MaxE :
        /\ ipRes = <<>>
        /\ ipRes' = KernelCall("IP_sg", <<s, e>>, TRUE,
                               SuperGaussProfile(ipGrid, s, e), IP_sg(ipGrid, s, e))
        /\ UNCHANGED <<ipGrid, mainVars, fitVars, evVars, cvVars, tplVars>>
CallIP_ag ==
    \E s \in Widths, a \in Skews :
        /\ ipRes = <<>>
        /\ ipRes' = KernelCall("IP_ag", <<s, a>>, TRUE,
                               SkewProfile(ipGrid, s, a), IP_ag(ipGrid, s, a))
        /\ UNCHANGED <<ipGrid, mainVars, fitVars, evVars, cvVars, tplVars>>
CallIP_bg ==
    \E s1 \in Widths, s2 \in Widths :
        /\ ipRes = <<>>
        /\ ipRes' = KernelCall("IP_bg", <<s1, s2>>, TRUE,
                               BiGaussProfile(ipGrid, s1, s2), IP_bg(ipGrid, s1, s2))
        /\ UNCHANGED <<ipGrid, mainVars, fitVars, evVars, cvVars, tplVars>>
CallIP_mcg ==
    \E s0 \in Widths, a1 \in McgAmps :
        /\ ipRes = <<>>
        /\ ipRes' = KernelCall("IP_mcg", <<s0, a1>>, TRUE,
                               McgProfile(ipGrid, s0, a1), IP_mcg(ipGrid, s0, a1))
        /\ UNCHANGED <<ipGrid, mainVars, fitVars, evVars, cvVars, tplVars>>
CallIP_mg ==
    \E a \in MgArgs :
        /\ ipRes = <<>>
        /\ ipRes' = KernelCall("IP_mg", a, MgProfile(ipGrid, a)[1],
                               MgProfile(ipGrid, a)[2], IP_mg(ipGrid, a))
        /\ UNCHANGED <<ipGrid, mainVars, fitVars, evVars, cvVars, tplVars>>

IPInit ==
    /\ ipGrid \in Grids
    /\ ipRes = <<>>

IPNext == CallIP \/ CallIP_sg \/ CallIP_ag \/ CallIP_bg \/ CallIP_mcg \/ CallIP_mg

InitIP == IPInit /\ MainOff /\ FitOff /\ EvalOff /\ CvOff /\ TplOff

SpecIP == InitIP /\ [][IPNext]_vars

-----------------------------------------------------------------------------
(* model.py: the evaluator, model.__init__ and model.__call__ *)

(* The log-wavelength axis is counted in half steps of the grid: knot j of  *)
(* lnwave_j is at 2*(first + j), the step dx is 2.  Wavelengths are whole   *)
(* numbers, and np.log is the base-2 logarithm rounded down to a half step. *)
(* A velocity is counted in the unit that shifts by one half step (rv/c,    *)
(* log(1+v/c)).  The arrays of a call are followed by the finiteness of     *)
(* their elements: TRUE is a finite float, FALSE is nan or inf.             *)

\* the longest log-wavelength grid, and the number of absorber templates
MaxN == 6
MaxT == 2
\* an RV that moves the grid out of the range of the stellar template
FarRV == 9

Min(a, b) == IF a < b THEN a ELSE b
Max(a, b) == IF a > b THEN a ELSE b

RECURSIVE FloorLog2(_)
FloorLog2(n) == IF n < 2 THEN 0 ELSE 1 + FloorLog2(n \div 2)

\* np.log(w) in half steps: <<finite?, value>>
Log(w) == IF w <= 0 THEN <<FALSE, 0>> ELSE <<TRUE, FloorLog2(w * w)>>

\* poly(x, a) = np.polyval(a[::-1], x) = a[0] + a[1] x + a[2] x^2 + ...
RECURSIVE poly(_, _)
poly(x, a) == IF a = <<>> THEN 0 ELSE Head(a) + x * poly(x, Tail(a))

\* Python's a[lo:hi] with negative bounds counted from the end (-0 is 0)
PyIndex(i, n) == IF i < 0 THEN Max(n + i, 0) ELSE Min(i, n)
PySlice(a, lo, hi) == SubSeq(a, PyIndex(lo, Len(a)) + 1, PyIndex(hi, Len(a)))

\* model.__init__(S_star, lnwave_j, spec_cell_j, fluxes_molec, IP,
\*                func_norm=poly, IP_hs=50, xcen=0)
NewModel(class, S_star, lnwave_j, spec_cell_j, fluxes_molec, ip, IP_hs) ==
    [class        |-> class,
     xcen         |-> 0,
     \* IP is a kernel function f for model, the initial trace bg for model_bnd
     S_star       |-> S_star,
     lnwave_j     |-> lnwave_j,
     spec_cell_j  |-> spec_cell_j,
     fluxes_molec |-> fluxes_molec,
     IP           |-> ip,
     dx           |-> lnwave_j[2] - lnwave_j[1],
     IP_hs        |-> IP_hs,
     vk           |-> [k \in 1..(2 * IP_hs + 1) |->
                         (k - IP_hs - 1) * (lnwave_j[2] - lnwave_j[1])],
     lnwave_j_eff |-> PySlice(lnwave_j, IP_hs, -IP_hs),
     func_norm    |-> "poly",
     \* set by model_bnd.base only
     based        |-> FALSE,
     x            |-> <<>>,
     bnd          |-> <<>>,
     BBxjl        |-> <<>>,
     Bxk          |-> <<>>]

\* IPs[name](vk, *coeff_ip): the kernel function applied to the shape values
KernelOf(name, vk, coeff_ip) ==
    CASE name = "g" -> IP(vk, coeff_ip[1])
      [] name = "sg" -> IP_sg(vk, coeff_ip[1], coeff_ip[2])
      [] name = "ag" -> IP_ag(vk, coeff_ip[1], coeff_ip[2])
      [] name = "bg" -> IP_bg(vk, coeff_ip[1], coeff_ip[2])
      [] name = "mcg" -> IP_mcg(vk, coeff_ip[1], coeff_ip[2])
      [] name = "mg" -> IP_mg(vk, coeff_ip)

\* flux_mol**np.abs(coeff_mol) is finite: a coefficient is counted in halves,
\* and a negative flux to a power that is not whole is nan
PowFinite(flux, coeff) == ~(flux < 0 /\ Abs(coeff) % 2 = 1)

\* the coefficients zip(coeff_atm, self.fluxes_molec) pairs with a template
Exponents(coeff_atm, T) == SubSeq(coeff_atm, 1, Min(Len(coeff_atm), T))

\* flux_atm after the loop of lines 123-125
FluxAtm(fluxes_molec, coeff_atm) ==
    [j \in 1..Len(fluxes_molec[1]) |->
        \A m \in 1..Len(Exponents(coeff_atm, Len(fluxes_molec))) :
            PowFinite(fluxes_molec[m][j], coeff_atm[m])]

\* a shift for any coefficient beyond the templates
HasShiftAtLeast(coeff_atm, T) == Len(coeff_atm) >= T + 1

\* len(coeff_atm) == len(self.fluxes_molec)+1
HasShift(coeff_atm, T) == Len(coeff_atm) = T + 1

\* np.interp(lnwave_j, lnwave_j - log(1+v/c), flux_atm) for a shift of d
\* knots: the value at knot j + d, the ends repeated
ShiftAtm(flux_atm, d) ==
    [j \in 1..Len(flux_atm) |-> flux_atm[Max(1, Min(Len(flux_atm), j + d))]]

\* np.convolve(kernel, signal, mode='valid'), the longer of the two slid over
\* the shorter: max(M,N) - min(M,N) + 1 elements, each finite when the kernel
\* and its window are
ConvolveValid(kernel, signal) ==
    LET long == IF Len(signal) >= Len(kernel) THEN signal ELSE kernel
        short == IF Len(signal) >= Len(kernel) THEN kernel ELSE signal
    IN  [k \in 1..(Len(long) - Len(short) + 1) |->
            /\ \A i \in 1..Len(short) : short[i]
            /\ \A i \in k..(k + Len(short) - 1) : long[i]]

\* np.interp(x, xp, fp) at one finite x: fp at the knot when x is on it or
\* beyond the ends, between its two neighbours otherwise
InterpFinite(x, xp, fp) ==
    IF x <= xp[1] THEN fp[1]
    ELSE IF x >= xp[Len(xp)] THEN fp[Len(fp)]
    ELSE LET i == CHOOSE i \in 1..(Len(xp) - 1) : xp[i] <= x /\ x < xp[i+1]
         IN  IF x = xp[i] THEN fp[i] ELSE fp[i] /\ fp[i+1]

\* model.__call__(pixel, rv, coeff_norm, coeff_wave, coeff_ip, coeff_atm,
\* coeff_bkg), on evaluator m.  status is "returned", or the exception raised
\* by a callee (S_star outside its range, np.interp on arrays of unequal
\* length, np.convolve on an empty array)
Evaluate(m, a) ==
    LET T == Len(m.fluxes_molec)
        N == Len(m.lnwave_j)
        atm0 == IF T > 0 THEN FluxAtm(m.fluxes_molec, a.coeff_atm) ELSE <<>>
        shift == T > 0 /\ HasShift(a.coeff_atm, T)
        atm == IF shift THEN ShiftAtm(atm0, a.coeff_atm[Len(a.coeff_atm)]) ELSE atm0
        spec_gas == [j \in 1..N |-> IF T > 0 THEN atm[j] ELSE TRUE]
        kernel == KernelOf(m.IP.f, m.vk, a.coeff_ip)
        inStar == \A j \in 1..N : /\ m.lnwave_j[j] - a.rv >= m.S_star[1]
                                  /\ m.lnwave_j[j] - a.rv <= m.S_star[2]
        Sj_eff == ConvolveValid([k \in 1..Len(kernel) |-> isfinite(kernel[k])], spec_gas)
        lnwave_obs == [i \in 1..Len(a.pixel) |-> Log(poly(a.pixel[i] - m.xcen, a.coeff_wave))]
        Si_eff == [i \in 1..Len(a.pixel) |->
                     /\ lnwave_obs[i][1]
                     /\ InterpFinite(lnwave_obs[i][2], m.lnwave_j_eff, Sj_eff)]
        status == IF ~inStar THEN "ValueError: S_star"
                  ELSE IF Len(m.lnwave_j_eff) = 0 \/ Len(m.lnwave_j_eff) # Len(Sj_eff)
                         THEN "ValueError: np.interp"
                  ELSE "returned"
    IN  [status       |-> status,
         kernel       |-> kernel,
         exponents    |-> IF T > 0 THEN Exponents(a.coeff_atm, T) ELSE <<>>,
         shift        |-> IF shift THEN <<a.coeff_atm[Len(a.coeff_atm)]>> ELSE <<>>,
         flux_atm     |-> atm,
         len_Sj_eff   |-> Len(Sj_eff),
         len_eff      |-> Len(m.lnwave_j_eff),
         Si_mod       |-> IF status = "returned" THEN Si_eff ELSE <<>>]

\* the callers (two chunks), and an idle caller
Callers == {1, 2}
Idle == [pc |-> "idle", op |-> "", own |-> <<>>, args |-> <<>>, res |-> <<>>]

\* model.__call__ by caller c with arguments a: one step, nothing written
ModelCall(c, a) ==
    /\ self.class = "model"
    /\ ev[c].pc = "idle"
    /\ ev' = [ev EXCEPT ![c] = [pc |-> "done", op |-> "__call__", own |-> <<>>,
                                args |-> a, res |-> <<Evaluate(self, a)>>]]
    /\ UNCHANGED <<self, self0, mainVars, fitVars, ipVars, cvVars, tplVars>>

\* model.fit by caller c: curve_fit evaluates S_model, which calls self with
\* the reassembled arguments a; an exception of the evaluator leaves fit; the
\* solver otherwise returns or raises; nothing of the instance is written
ModelFit(c, a, converged) ==
    /\ self.class = "model"
    /\ ev[c].pc = "idle"
    /\ LET r == Evaluate(self, a)
       IN  ev' = [ev EXCEPT ![c] =
                    [pc |-> "done", op |-> "fit", own |-> <<>>, args |-> a,
                     res |-> <<[r EXCEPT !.status =
                                IF r.status # "returned" THEN r.status
                                ELSE IF converged THEN "returned"
                                ELSE "RuntimeError: curve_fit"]>>]]
    /\ UNCHANGED <<self, self0, mainVars, fitVars, ipVars, cvVars, tplVars>>

\* the grid of n knots starting at knot 2 (wavelength 4)
LnGrid(n) == [j \in 1..n |-> 2 * (j + 1)]
\* a stellar template covering the grid and one knot more on each side
StarRange(n) == <<2, 2 * (n + 2)>>
\* an absorber template with a negative and a zero flux among its knots
Template(n) == [j \in 1..n |-> IF j = 1 THEN -1 ELSE IF j = 2 THEN 0 ELSE 1]
GridLens == {2, MaxN - 1, MaxN}
KernelNames == {"g", "sg", "ag", "bg", "mcg", "mg"}

ModelInstances ==
    {NewModel("model", StarRange(n), LnGrid(n), [j \in 1..n |-> TRUE],
              [t \in 1..T |-> Template(n)], [f |-> ip, bg |-> <<>>], h) :
        n \in GridLens, T \in 0..MaxT, ip \in KernelNames, h \in 0..MaxHs}

\* shape values per kernel: regular ones, and ones that make the sum zero
IpArgs(name) ==
    CASE name = "g" -> {<<1>>}
      [] name = "sg" -> {<<1, MaxE>>}
      [] name = "ag" -> {<<1, 1>>}
      [] name = "bg" -> {<<1, MaxS>>}
      [] name = "mcg" -> {<<1, 1>>, <<1, -10>>}
      [] name = "mg" -> {<<>>, <<-1>>, <<-20>>}
      [] OTHER -> {}

\* absorber coefficients: none, up to two more than the templates; the first
\* is 1/2 or 1, coefficient k > 1 is k/2
AtmArgs(T) ==
    {[k \in 1..K |-> IF k = 1 THEN e ELSE k] : K \in 0..(T + 2), e \in {1, 2}}

\* a pixel array per caller
PixelsOf(c) == IF c = 1 THEN <<0, 1, 2>> ELSE <<3, 4>>
\* wavelength solutions lam(x) = b0 + b1 x: on the grid, and not positive
WaveArgs == {<<8, 8>>, <<-1, 0>>}

CallArgs(m, c) ==
    {[pixel |-> PixelsOf(c), rv |-> v, coeff_norm |-> <<1>>, coeff_wave |-> w,
      coeff_ip |-> ip, coeff_atm |-> atm, coeff_bkg |-> <<0>>] :
        v \in {0, FarRV}, w \in WaveArgs, ip \in IpArgs(m.IP.f),
        atm \in AtmArgs(Len(m.fluxes_molec))}

EvalInit ==
    /\ self \in ModelInstances
    /\ self0 = self
    /\ ev = [c \in Callers |-> Idle]

EvalNext ==
    \/ \E a \in CallArgs(self, 1) : ModelCall(1, a)
    \/ \E a \in CallArgs(self, 1), ok \in BOOLEAN : ModelFit(1, a, ok)

InitEval == EvalInit /\ MainOff /\ FitOff /\ IPOff /\ CvOff /\ TplOff

SpecEval == InitEval /\ [][EvalNext]_vars

-----------------------------------------------------------------------------
(* model.py: model_bnd, the band-matrix evaluator *)

\* np.interp(lnwave_obs, self.lnwave_j, j).astype(int) for a finite
\* lnwave_obs: the 0-based knot at or below it, held at the ends
KnotBelow(lnwave_j, pos) ==
    Max(0, Min(Len(lnwave_j) - 1, (pos - lnwave_j[1]) \div (lnwave_j[2] - lnwave_j[1])))

\* line 242: the row of 0-based knot indices of each pixel
Band(m, x) ==
    [i \in 1..Len(x) |->
        [k \in 1..(2 * m.IP_hs + 1) |->
            KnotBelow(m.lnwave_j, Log(poly(x[i] - m.xcen, m.IP.bg))[2]) + (k - m.IP_hs - 1)]]

\* self.lnwave_j[self.bnd] accepts an index from -N to N-1
Indexable(bnd, N) ==
    \A i \in 1..Len(bnd) : \A k \in 1..Len(bnd[i]) : bnd[i][k] >= -N /\ bnd[i][k] < N

\* model_bnd.base(x=x): the instance afterwards and whether base returned;
\* an IndexError at line 245 leaves self.x and self.bnd written
base(m, x) ==
    LET bnd == Band(m, x)
    IN  IF Indexable(bnd, Len(m.lnwave_j))
        THEN [returned |-> TRUE,
              m |-> [m EXCEPT !.based = TRUE, !.x = x, !.bnd = bnd,
                              !.BBxjl = <<[x |-> x, bnd |-> bnd]>>,
                              !.Bxk = <<[x |-> x, degk |-> 3]>>]]
        ELSE [returned |-> FALSE,
              m |-> [m EXCEPT !.based = TRUE, !.x = x, !.bnd = bnd]]

\* lines 254-256 and the use of the result by fit (lstsq against the caller's
\* flux f) or __call__: what the call returns, or the exception it leaves with
Axk(m, op, v, nf) ==
    LET inStar == \A j \in 1..Len(m.lnwave_j) :
                      /\ m.lnwave_j[j] - v >= m.S_star[1]
                      /\ m.lnwave_j[j] - v <= m.S_star[2]
    IN  IF ~inStar THEN [status |-> "ValueError: S_star", bnd |-> <<>>, basis |-> <<>>]
        ELSE IF ~m.based \/ Len(m.BBxjl) = 0
          THEN [status |-> "AttributeError", bnd |-> <<>>, basis |-> <<>>]
        ELSE IF ~Indexable(m.bnd, Len(m.lnwave_j))
          THEN [status |-> "IndexError", bnd |-> <<>>, basis |-> <<>>]
        ELSE IF op = "fit" /\ Len(m.bnd) # nf
          THEN [status |-> "LinAlgError: lstsq", bnd |-> <<>>, basis |-> <<>>]
        ELSE [status |-> "returned", bnd |-> m.bnd, basis |-> <<m.BBxjl[1], m.Bxk[1]>>]

BndOps == {"__call__", "fit"}

\* model_bnd.__call__(x, v, ak, x=x) or model_bnd.fit(f, v, x=x) by caller
\* c, up to the return of self.base(**kwargs) in Axk
BndBase(c, op, v) ==
    /\ self.class = "model_bnd"
    /\ ev[c].pc = "idle"
    /\ LET b == base(self, PixelsOf(c))
       IN  /\ self' = b.m
           /\ ev' = [ev EXCEPT ![c] =
                       [pc |-> IF b.returned THEN "axk" ELSE "done",
                        op |-> op, own |-> PixelsOf(c), args |-> <<v>>,
                        res |-> IF b.returned THEN <<>>
                                ELSE <<[status |-> "IndexError", bnd |-> <<>>,
                                        basis |-> <<>>]>>]]
    /\ UNCHANGED <<self0, mainVars, fitVars, ipVars, cvVars, tplVars>>

\* the rest of that call: Axk reads self.bnd, self.BBxjl and self.Bxk
BndAxk(c) ==
    /\ self.class = "model_bnd"
    /\ ev[c].pc = "axk"
    /\ ev' = [ev EXCEPT ![c].pc = "done",
                        ![c].res = <<Axk(self, ev[c].op, ev[c].args[1],
                                         Len(PixelsOf(c)))>>]
    /\ UNCHANGED <<self, self0, mainVars, fitVars, ipVars, cvVars, tplVars>>

\* the same operations without keyword arguments: base is not called
BndCached(c, op, v) ==
    /\ self.class = "model_bnd"
    /\ ev[c].pc = "idle"
    /\ ev' = [ev EXCEPT ![c].pc = "done", ![c].op = op, ![c].args = <<v>>,
                        ![c].res = <<Axk(self, op, v, Len(PixelsOf(c)))>>]
    /\ UNCHANGED <<self, self0, mainVars, fitVars, ipVars, cvVars, tplVars>>

\* the caller takes the result of a model_bnd call and goes on
BndReturn(c) ==
    /\ self.class = "model_bnd"
    /\ ev[c].pc = "done"
    /\ ev' = [ev EXCEPT ![c].pc = "idle", ![c].op = "", ![c].args = <<>>,
                        ![c].res = <<>>]
    /\ UNCHANGED <<self, self0, mainVars, fitVars, ipVars, cvVars, tplVars>>

\* the shortest grid of a band evaluator
MinBndN == 4
\* the initial trace bg of a band evaluator: lam(x) = 8 + 8 x
BndInstances ==
    {NewModel("model_bnd", StarRange(n), LnGrid(n), [j \in 1..n |-> TRUE],
              <<>>, [f |-> "", bg |-> <<8, 8>>], h) :
        n \in {MinBndN, MaxN}, h \in 0..MaxHs}

\* the plain evaluators shared by two callers
SharedModels ==
    {m \in ModelInstances :
        /\ Len(m.lnwave_j) = MaxN
        /\ Len(m.fluxes_molec) = 1
        /\ m.IP.f = "mcg"
        /\ m.IP_hs = 1}

SharedArgs(m, c) == {a \in CallArgs(m, c) : a.rv = 0 /\ a.coeff_wave = <<8, 8>>}

BndInit ==
    /\ self \in BndInstances \cup SharedModels
    /\ self0 = self
    /\ ev = [c \in Callers |-> Idle]

BndNext ==
    \/ \E c \in Callers, op \in BndOps, v \in {0, FarRV} : BndBase(c, op, v)
    \/ \E c \in Callers : BndAxk(c)
    \/ \E c \in Callers, op \in BndOps, v \in {0, FarRV} : BndCached(c, op, v)
    \/ \E c \in Callers : BndReturn(c)
    \/ \E c \in Callers : \E a \in SharedArgs(self, c) : ModelCall(c, a)
    \/ \E c \in Callers : \E a \in SharedArgs(self, c), ok \in BOOLEAN : ModelFit(c, a, ok)

InitBnd == BndInit /\ MainOff /\ FitOff /\ IPOff /\ CvOff /\ TplOff

SpecBnd == InitBnd /\ [][BndNext]_vars

-----------------------------------------------------------------------------
(* convert_output.py: convert_data *)

\* the most data rows of a .dat file
MaxRows == 2

\* np.genfromtxt(file, dtype=None, names=True): the names of the header line
\* in their order, and the data; a file with one data row gives an array
\* without a dimension, on which len() raises TypeError
genfromtxt(file) == [names |-> file.names, rows |-> file.rows, unsized |-> file.rows = 1]

\* the array of column c of a table read from a file
ColumnOf(file, c) == [file |-> file, col |-> c]

PrimaryHDU == [kind |-> "primary", columns |-> <<>>]
TableHDU(columns) == [kind |-> "table", columns |-> columns]

\* lines 41-47 and 51-54: one fits.Column per name of the header, appended
\* in the order of the header
FitsColumns(file, header, strings) ==
    [c \in 1..Len(header) |->
        [name |-> header[c],
         format |-> IF strings /\ header[c] = "filename" THEN "string" ELSE "float",
         array |-> ColumnOf(file, c)]]

\* the stage of __init__ that follows stage p (lines 27-32)
CvAfter(p, in) ==
    IF p = "init" /\ in.fits THEN "fits"
    ELSE IF p \in {"init", "fits"} /\ in.cpl THEN "cpl"
    ELSE IF p \in {"init", "fits", "cpl2"} /\ in.final THEN "final"
    ELSE "done"

\* lines 18-25: the two .dat files are read when fits or cpl is asked for
CvRead ==
    /\ cvPc = "init"
    /\ cvPc' = CvAfter("init", cvIn)
    /\ UNCHANGED <<cvIn, cvFiles, mainVars, fitVars, ipVars, evVars, tplVars>>

\* write_fits: the primary HDU, the rvo table and the par table are written
\* in one HDUList, an existing file is replaced.  What astropy does with the
\* array without a dimension of a one-row file is not fixed by this code:
\* written tells whether the tables were built and the file written
CvWriteFits(written) ==
    /\ cvPc = "fits"
    /\ written \/ genfromtxt(cvIn.rvo).unsized \/ genfromtxt(cvIn.par).unsized
    /\ IF written
       THEN /\ cvFiles' = [cvFiles EXCEPT !.rvo_par =
                    <<PrimaryHDU,
                      TableHDU(FitsColumns("rvo", genfromtxt(cvIn.rvo).names, TRUE)),
                      TableHDU(FitsColumns("par", genfromtxt(cvIn.par).names, FALSE))>>]
            /\ cvPc' = CvAfter("fits", cvIn)
       ELSE /\ cvPc' = "raised"
            /\ UNCHANGED cvFiles
    /\ UNCHANGED <<cvIn, mainVars, fitVars, ipVars, evVars, tplVars>>

\* write_cpl, lines 67-78: cpl.core.Table(len(self.data_rvo)), one new column
\* per name, Table.save with CREATE (a new file: primary HDU and the table)
CvCplCreate ==
    /\ cvPc = "cpl"
    /\ IF genfromtxt(cvIn.rvo).unsized
       THEN /\ cvPc' = "raised"
            /\ UNCHANGED cvFiles
       ELSE /\ cvFiles' = [cvFiles EXCEPT !.rvo_par =
                    <<PrimaryHDU,
                      TableHDU(FitsColumns("rvo", genfromtxt(cvIn.rvo).names, TRUE))>>]
            /\ cvPc' = "cpl2"
    /\ UNCHANGED <<cvIn, mainVars, fitVars, ipVars, evVars, tplVars>>

\* write_cpl, lines 81-88: the par table, Table.save with EXTEND (appended
\* to the file as its next extension)
CvCplExtend ==
    /\ cvPc = "cpl2"
    /\ IF genfromtxt(cvIn.par).unsized
       THEN /\ cvPc' = "raised"
            /\ UNCHANGED cvFiles
       ELSE /\ cvFiles' = [cvFiles EXCEPT !.rvo_par =
                    Append(cvFiles.rvo_par,
                           TableHDU(FitsColumns("par", genfromtxt(cvIn.par).names, FALSE)))]
            /\ cvPc' = CvAfter("cpl2", cvIn)
    /\ UNCHANGED <<cvIn, mainVars, fitVars, ipVars, evVars, tplVars>>

\* write_finalRV: <filename>.dat becomes the one table of <filename>.fits
CvWriteFinal(written) ==
    /\ cvPc = "final"
    /\ written \/ genfromtxt(cvIn.dat).unsized
    /\ IF written
       THEN /\ cvFiles' = [cvFiles EXCEPT !.final =
                    <<PrimaryHDU,
                      TableHDU(FitsColumns("dat", genfromtxt(cvIn.dat).names, TRUE))>>]
            /\ cvPc' = "done"
       ELSE /\ cvPc' = "raised"
            /\ UNCHANGED cvFiles
    /\ UNCHANGED <<cvIn, mainVars, fitVars, ipVars, evVars, tplVars>>

\* header lines of .rvo.dat, .par.dat and .dat files
RvoHeaders == {<<"BJD", "RV", "e_RV">>, <<"BJD", "RV", "filename">>, <<"filename", "BJD">>}
ParHeaders == {<<"BJD", "o", "rv">>, <<"o", "BJD">>}
DatFiles(headers) == {[names |-> h, rows |-> r] : h \in headers, r \in 1..MaxRows}

\* a file left at <filename>_rvo_par.fits by an earlier run
OldFile == <<PrimaryHDU, TableHDU(FitsColumns("old", <<"old">>, FALSE)),
             TableHDU(FitsColumns("old", <<"old">>, FALSE)),
             TableHDU(FitsColumns("old", <<"old">>, FALSE))>>

CvInit ==
    /\ cvPc = "init"
    /\ cvIn \in {[fits |-> f, cpl |-> c, final |-> fin, rvo |-> r, par |-> p,
                  dat |-> [names |-> <<"BJD", "RV">>, rows |-> MaxRows]] :
                    f \in BOOLEAN, c \in BOOLEAN, fin \in BOOLEAN,
                    r \in DatFiles(RvoHeaders), p \in DatFiles(ParHeaders)}
    /\ cvFiles \in {[rvo_par |-> old, final |-> <<>>] : old \in {<<>>, OldFile}}

CvNext ==
    \/ CvRead
    \/ \E written \in BOOLEAN : CvWriteFits(written)
    \/ CvCplCreate
    \/ CvCplExtend
    \/ \E written \in BOOLEAN : CvWriteFinal(written)

InitCv == CvInit /\ MainOff /\ FitOff /\ IPOff /\ EvalOff /\ TplOff

SpecCv == InitCv /\ [][CvNext]_vars

-----------------------------------------------------------------------------
(* inst/inst_CRIRES.py: the orders, and the template file *)

\* oset = '1:19': the orders 1 to 18
OsetStop == 19
Orders == 1..(OsetStop - 1)
\* the detectors of the instrument
NDetectors == 3

\* lines 44-46 and 147-149: order_drs, detector = divmod(order-1, 3);
\* order_drs = 7 - order_drs; detector += 1
OrderDrs(order) == [order_drs |-> 7 - ((order - 1) \div 3),
                    detector  |-> ((order - 1) % 3) + 1]

\* the order of a column counted from order_drs 6 instead of 7
OrderFromSix(odrs, detector) == (6 - odrs) * 3 + detector

\* lines 233 and 304: o = (7-odrs)*3 + detector
OrderOf(odrs, detector) == (7 - odrs) * 3 + detector

\* the column "0"+str(odrs)+"_01_"+what, and int(cc.split('_')[0]) of it
ColumnName(odrs, what) == [odrs |-> odrs, what |-> what]
OdrsOfColumn(cc) == cc.odrs

\* the data of a column: of the input file, a template, ones, or nan
Data(what, o) == [is |-> what, o |-> o]

\* a detector table of the input file: SPEC, ERR and WL of each of its orders
InputTable(odrsList) ==
    [i \in 1..(3 * Len(odrsList)) |->
        [name |-> ColumnName(odrsList[((i - 1) \div 3) + 1],
                             <<"SPEC", "ERR", "WL">>[((i - 1) % 3) + 1]),
         data |-> Data("file_in", 0)]]

\* cols[::3]
EveryThird(cols) == [i \in 1..((Len(cols) + 2) \div 3) |-> cols[3 * (i - 1) + 1]]

\* tbl[name] = data
SetColumn(tbl, name, data) ==
    [i \in 1..Len(tbl) |-> IF tbl[i].name = name THEN [tbl[i] EXCEPT !.data = data]
                           ELSE tbl[i]]

\* lines 232-243 and 303-314 for one column cc of cols[::3]
WriteOrder(tbl, cc, detector, keys) ==
    LET odrs == OdrsOfColumn(cc.name)
        o == OrderOf(odrs, detector)
    IN  IF o \in keys
        THEN SetColumn(SetColumn(SetColumn(tbl,
                 ColumnName(odrs, "WL"), Data("wtpl_all", o)),
                 ColumnName(odrs, "SPEC"), Data("tpl_all", o)),
                 ColumnName(odrs, "ERR"), Data("e_all", o))
        ELSE SetColumn(SetColumn(SetColumn(tbl,
                 ColumnName(odrs, "WL"), Data("wave0*10", 0)),
                 ColumnName(odrs, "SPEC"), Data("ones", 0)),
                 ColumnName(odrs, "ERR"), Data("nan", 0))

\* the loop over cols[::3], from column n on
RECURSIVE WriteColumns(_, _, _, _, _)
WriteColumns(tbl, cols, n, detector, keys) ==
    IF n > Len(cols) THEN tbl
    ELSE WriteColumns(WriteOrder(tbl, cols[n], detector, keys), cols, n + 1, detector, keys)

\* one round of 'for detector in (1, 2, 3)': write_fits_cpl saves the table
\* of the detector (CREATE for the first, EXTEND for the others),
\* write_fits_nocpl writes all of them after the loop
WriteDetector ==
    /\ tplPc \in 1..NDetectors
    /\ LET tbl == WriteColumns(tplMem[tplPc], EveryThird(tplMem[tplPc]), 1,
                               tplPc, tplIn.keys)
           mem == [tplMem EXCEPT ![tplPc] = tbl]
       IN  /\ tplMem' = mem
           /\ tplOut' = IF tplIn.pycpl THEN Append(tplOut, tbl)
                        ELSE IF tplPc = NDetectors THEN mem
                        ELSE tplOut
    /\ tplPc' = tplPc + 1
    /\ UNCHANGED <<tplIn, tplRead, mainVars, fitVars, ipVars, evVars, cvVars>>

\* Tpl(tplname, order) on the file written: the column "0<order_drs>_01_SPEC"
\* of extension detector, KeyError when the table has no such column
Tpl(order) ==
    /\ tplPc > NDetectors
    /\ tplRead = <<>>
    /\ LET d == OrderDrs(order)
           tbl == tplOut[d.detector]
           at == {i \in 1..Len(tbl) : tbl[i].name = ColumnName(d.order_drs, "SPEC")}
       IN  tplRead' = <<[order |-> order, order_drs |-> d.order_drs,
                         detector |-> d.detector,
                         spec |-> IF at = {} THEN Data("KeyError", 0)
                                  ELSE tbl[CHOOSE i \in at : TRUE].data]>>
    /\ UNCHANGED <<tplIn, tplPc, tplMem, tplOut, mainVars, fitVars, ipVars, evVars, cvVars>>

\* the orders of tpl_all, and the order_drs of the columns of an input file
KeySets == {{}, {1}, {OsetStop - 1}, {2, 3, 4}, {5, 9, 13}, Orders}
FileOrders == {<<2, 3, 4, 5, 6, 7>>, <<7, 6, 5, 4, 3, 2>>, <<3, 4, 5, 6>>}

TplInit ==
    /\ tplIn \in {[keys |-> k, orders |-> f, pycpl |-> p] :
                    k \in KeySets, f \in FileOrders, p \in BOOLEAN}
    /\ tplPc = 1
    /\ tplMem = [d \in 1..NDetectors |-> InputTable(tplIn.orders)]
    /\ tplOut = <<>>
    /\ tplRead = <<>>

TplNext ==
    \/ WriteDetector
    \/ \E order \in Orders : Tpl(order)

InitTpl == TplInit /\ MainOff /\ FitOff /\ IPOff /\ EvalOff /\ CvOff

SpecTpl == InitTpl /\ [][TplNext]_vars

-----------------------------------------------------------------------------
(* Claims about fit_chunk and the aggregate (specification Spec) *)

\* the names a solver call gives a value to, free or fixed
UsedNames(run) ==
    {run.free[j] : j \in 1..Len(run.free)} \cup {run.fixed[j][1] : j \in 1..Len(run.fixed)}

\* the value a solver call starts parameter n from: its p0 entry when n is
\* free, the value the lambda passes when n is fixed
StartValue(run, n) ==
    IF \E j \in 1..Len(run.free) : run.free[j] = n
      THEN run.p0[CHOOSE j \in 1..Len(run.free) : run.free[j] = n]
      ELSE run.fixed[CHOOSE j \in 1..Len(run.fixed) : run.fixed[j][1] = n][2]

\* C2: every stage k >= 2 starts each parameter that stage k-1 fitted, and
\* that stage k uses, from the value stage k-1 fitted.
C2_SeededFromPreviousStage ==
    \A k \in 2..Len(runs) :
        \A j \in 1..Len(runs[k-1].free) :
            runs[k-1].free[j] \in UsedNames(runs[k])
                => StartValue(runs[k], runs[k-1].free[j]) = Fit(k-1, runs[k-1].free[j])

\* the number of free parameters of the k-th solver call of the chunk
NFree(k) == Len(runs[k].free)

\* C3 (as stated): the number of free parameters strictly increases from
\* every stage to the next.
C3_FreeCountStrictlyIncreases ==
    \A k \in 1..(Len(runs) - 1) : NFree(k) < NFree(k+1)

\* C3 (amended): the number of free parameters never decreases from a stage
\* to the next, and strictly increases at every step except from stage 3 to
\* stage 4, which fit the same six parameters (on another pixel range).
C3_FreeCountNeverDecreases ==
    \A k \in 1..(Len(runs) - 1) :
        /\ NFree(k) <= NFree(k+1)
        /\ k # 3 => NFree(k) < NFree(k+1)
        /\ k = 3 => NFree(k) = NFree(k+1) /\ runs[k].pixels # runs[k+1].pixels

\* C3 witness: a chunk whose six stages have all run.
C3_Witness == Len(runs) = NStages /\ NFree(3) = 6 /\ NFree(NStages) = 10

\* C4: a solver failure in a chunk leaves not-a-number in that chunk's rv
\* and e_rv and does not stop the script.
C4_FailureIsLocalToChunk ==
    \A c \in failed :
        /\ pc # "raised"
        /\ c < i_o => isnan(rv[c]) /\ isnan(e_rv[c])

\* the chunks the claim calls valid: those whose RV is a number
ValidByRV(r) == [j \in 1..Len(r) |-> ~isnan(r[j])]

\* C5: when at least one chunk is valid (its RV is not not-a-number), the
\* aggregate RV is the mean of the RVs of exactly the valid chunks.
C5_AggregateIsMeanOfValid ==
    (pc = "end" /\ \E j \in 1..NOrders : ~isnan(rv[j]))
        => SameNum(RV, Mean(Masked(rv, ValidByRV(rv))))

\* C6: the aggregation fails, writing no mean RV and no standard error, if
\* and only if no chunk is valid.
C6_FailsIffNoValidChunk ==
    pc = "end" =>
        ((rvofile = <<>>) <=> (\A j \in 1..NOrders : ~ValidMask(e_rv)[j]))

-----------------------------------------------------------------------------
(* Claims about model.fit (specification SpecFit) *)

\* the slices are contiguous, pairwise disjoint, and cover the flat vector
SlicesPartition(sl, n) ==
    /\ sl[1][1] = 0
    /\ \A j \in 1..(NGroups - 1) : sl[j][2] = sl[j+1][1]
    /\ \A j \in 1..NGroups : sl[j][1] <= sl[j][2]
    /\ sl[NGroups][2] = n

\* the group an index of the flat vector belongs to
GroupOfIndex(sl, i) == CHOOSE j \in 1..NGroups : sl[j][1] <= i /\ i < sl[j][2]

\* the evaluator's parameter of group j received the group's slice of the
\* vector followed by the group's fixed values
GroupReceived(bound, j, vector) ==
    /\ bound # <<>>
    /\ bound[j].val = Sliced(vector, fitSl[j]) \o fitIn.fix[Groups[j]]
    /\ bound[j].float = (j = 1)

\* the flat start vector, the slices and the evaluator calls of the solver
FlatVectorAndSlices ==
    fitPc \in {"solving", "returned", "raised"} =>
        /\ fitOpt.p0 = fitIn.par["rv"] \o fitIn.par["norm"] \o fitIn.par["wave"]
                         \o fitIn.par["ip"] \o fitIn.par["atm"] \o fitIn.par["bkg"]
        /\ SlicesPartition(fitSl, Len(fitOpt.p0))
        /\ \A i \in 0..(Len(fitOpt.p0) - 1) :
              fitOpt.p0[i+1][2] = Groups[GroupOfIndex(fitSl, i)]

\* C1: the start vector is the concatenation of the free values in group
\* order, the six slices partition it, and on every evaluator call each
\* group receives its own slice followed by its fixed values.
C1_PartitionIsOrderPreserving ==
    /\ FlatVectorAndSlices
    /\ fitCall # <<>> =>
          \A j \in 1..NGroups : GroupReceived(fitCall.bound, j, fitCall.params)

\* C7: the returned parameter set is the full set in evaluator argument
\* order, each group its fitted values followed by its fixed values, it can be
\* passed back to the evaluator unchanged, and with RV free the reported RV
\* variance is the covariance diagonal at index 0.
C7_ReturnedSetIsEvaluatorOrdered ==
    (fitPc = "raised" /\ fitRet # <<>>) \/ fitPc = "returned" =>
        /\ \A j \in 1..NGroups : GroupReceived(Bind(fitRet.params), j, fitRet.popt)
        /\ Len(fitIn.par["rv"]) = 1 =>
              fitRet.par_rv = <<fitRet.popt[1], fitRet.diag[1]>>

\* the calls in which the RV is given exactly once, free or fixed
RVGivenOnce == Len(fitIn.par["rv"]) + Len(fitIn.fix["rv"]) = 1

\* what holds of model.fit when the RV is given exactly once
PartitionWhenRVGivenOnce ==
    RVGivenOnce => C1_PartitionIsOrderPreserving /\ C7_ReturnedSetIsEvaluatorOrdered

-----------------------------------------------------------------------------
(* Claims about the kernel library (specification SpecIP) *)

\* C8 (as stated): every kernel function returns an array as long as the
\* grid whose elements sum to 1.
C8_KernelSumsToOne ==
    ipRes # <<>> =>
        /\ Len(ipRes.kernel) = Len(ipGrid)
        /\ SameNum(ArraySum(ipRes.kernel), Fin(1))

\* the kernel is not degenerate: its sum before the division is a non-zero
\* number
NonDegenerate(res) == isfinite(res.sum) /\ res.sum.n # 0

\* C8 (amended): every kernel function returns an array as long as the grid;
\* its elements sum to 1 when the sum of the kernel before the division is a
\* non-zero number, and otherwise no element of it is finite.
C8_KernelSumsToOneUnlessDegenerate ==
    ipRes # <<>> =>
        /\ Len(ipRes.kernel) = Len(ipGrid)
        /\ NonDegenerate(ipRes) => SameNum(ArraySum(ipRes.kernel), Fin(1))
        /\ ~NonDegenerate(ipRes) =>
              \A k \in 1..Len(ipRes.kernel) : ~isfinite(ipRes.kernel[k])

\* C8 witness: a Gaussian-spline kernel with free amplitudes on a grid of more
\* than one knot, not degenerate, some element negative.
C8_Witness ==
    /\ ipRes # <<>>
    /\ ipRes.f = "IP_mg"
    /\ Len(ipRes.args) = MaxAmp
    /\ Len(ipGrid) > 1
    /\ NonDegenerate(ipRes)
    /\ \E k \in 1..Len(ipRes.kernel) : ipRes.kernel[k].n * ipRes.kernel[k].d < 0

-----------------------------------------------------------------------------
(* Claims about the evaluator *)

\* the calls that have finished, as <<caller, result>>
Finished == {c \in DOMAIN ev : ev[c].pc = "done"}

\* a numerical error happened inside the evaluation: the kernel was divided
\* by a zero sum, or a negative flux was raised to a power that is not whole
NumericalError(r) ==
    \/ \E k \in 1..Len(r.kernel) : ~isfinite(r.kernel[k])
    \/ \E j \in 1..Len(r.flux_atm) : ~r.flux_atm[j]

\* C9: a numerical error inside the evaluator is detected and reported as a
\* failure: a call of model.__call__ or model.fit in which the kernel
\* normalisation divided by zero or a negative base was raised to a
\* fractional power does not return as if it had succeeded, and what a call
\* returns is finite.
C9_NumericalErrorIsDetected ==
    \A c \in Finished :
        (self.class = "model" /\ ev[c].res[1].status = "returned") =>
            /\ ~NumericalError(ev[c].res[1])
            /\ \A i \in 1..Len(ev[c].res[1].Si_mod) : ev[c].res[1].Si_mod[i]

\* what caller c's finished call returns when no other caller uses the
\* evaluator: the evaluation on the instance as built, after the caller's
\* own base(x) if it made one
ResultAlone(c) ==
    IF self0.class = "model"
    THEN IF ev[c].op = "fit" /\ ev[c].res[1].status = "RuntimeError: curve_fit"
         THEN ev[c].res[1]
         ELSE Evaluate(self0, ev[c].args)
    ELSE LET b == IF ev[c].own = <<>> THEN [returned |-> TRUE, m |-> self0]
                  ELSE base(self0, ev[c].own)
         IN  IF ~b.returned
             THEN [status |-> "IndexError", bnd |-> <<>>, basis |-> <<>>]
             ELSE Axk(b.m, ev[c].op, ev[c].args[1], Len(PixelsOf(c)))

\* no operation has written the instance: it is as __init__ left it
NothingWritten == self = self0

\* every finished call returned what it returns alone
SameAsAlone == \A c \in Finished : ev[c].res[1] = ResultAlone(c)

\* C10: no operation of model or model_bnd (__call__, fit, Axk) writes state
\* that another evaluation reads: the instance, with its fields S_star,
\* lnwave_j, spec_cell_j, fluxes_molec, IP and lnwave_j_eff, stays as
\* __init__ left it, and under any interleaving of the calls of two chunks
\* each call returns what it returns when run alone.
C10_NoSharedEvaluatorState == NothingWritten /\ SameAsAlone

-----------------------------------------------------------------------------
(* Claims about convert_data *)

\* table t holds one column per column of the .dat file, in the file's order
TableOfFile(t, file, header) ==
    /\ t.kind = "table"
    /\ Len(t.columns) = Len(header)
    /\ \A c \in 1..Len(header) :
          /\ t.columns[c].name = header[c]
          /\ t.columns[c].array = ColumnOf(file, c)

\* <filename>_rvo_par.fits holds the rvo table as HDU[1], the par table as HDU[2]
RvoThenPar ==
    /\ Len(cvFiles.rvo_par) = 3
    /\ cvFiles.rvo_par[1].kind = "primary"
    /\ TableOfFile(cvFiles.rvo_par[2], "rvo", cvIn.rvo.names)
    /\ TableOfFile(cvFiles.rvo_par[3], "par", cvIn.par.names)

\* C11: on every conversion path of convert_data (write_fits, write_cpl), once
\* the conversion has ended, <filename>_rvo_par.fits holds the rvo table as
\* HDU[1] and the par table as HDU[2], each with one column per column of its
\* .dat file in the file's column order.
C11_RvoThenParOnEveryPath ==
    (cvPc \in {"final", "done", "raised"} /\ (cvIn.fits \/ cvIn.cpl)) => RvoThenPar

\* the conversion went through every writer that was asked for
CvCompleted == cvPc \in {"final", "done"} /\ (cvIn.fits \/ cvIn.cpl)

\* C11, for the conversions that end without an exception
C11_RvoThenParWhenCompleted == CvCompleted => RvoThenPar

\* a conversion with PyCPL onto an existing file has completed
C11_Witness ==
    /\ cvPc = "done"
    /\ cvIn.cpl /\ ~cvIn.fits
    /\ cvIn.rvo.names = <<"BJD", "RV", "filename">>
    /\ RvoThenPar

-----------------------------------------------------------------------------
(* Claims about the lengths of the evaluator's arrays *)

\* the finished calls of model.__call__ and model.fit that reached np.convolve
Convolved ==
    {c \in Finished : self.class = "model" /\ ev[c].res[1].status # "ValueError: S_star"}

\* the convolved model and lnwave_j_eff both have N - 2h elements, and
\* element k of lnwave_j_eff is knot k+h of the grid
EffectiveGridAgrees(c) ==
    LET N == Len(self.lnwave_j)
        h == self.IP_hs
    IN  /\ ev[c].res[1].len_Sj_eff = N - 2 * h
        /\ Len(self.lnwave_j_eff) = N - 2 * h
        /\ \A k \in 1..Len(self.lnwave_j_eff) :
              k + h \in 1..N /\ self.lnwave_j_eff[k] = self.lnwave_j[k + h]
        /\ ev[c].res[1].len_eff = ev[c].res[1].len_Sj_eff

\* C12: for every grid of length N and every half-size h >= 0 with
\* N > 2h+1, the convolved model and the effective grid lnwave_j_eff both
\* have length N - 2h, element k of lnwave_j_eff is grid knot k+h, and the two
\* arrays handed to the pixel resampling have equal length.
C12_EffectiveGridMatchesConvolution ==
    \A c \in Convolved :
        (self.IP_hs >= 0 /\ Len(self.lnwave_j) > 2 * self.IP_hs + 1) =>
            EffectiveGridAgrees(c)

\* C12 for the half-sizes h >= 1
C12_ForPositiveHalfSize ==
    \A c \in Convolved :
        (self.IP_hs >= 1 /\ Len(self.lnwave_j) > 2 * self.IP_hs + 1) =>
            EffectiveGridAgrees(c)

-----------------------------------------------------------------------------
(* Claims about the absorber coefficients *)

\* the finished calls of model.__call__ and model.fit
ModelCalls == {c \in Finished : self.class = "model"}

\* in call c a shift was applied exactly when K = T + 1, and then it used the
\* last coefficient, the first T being the exponents of the T templates
ShiftIffOneExtra(c) ==
    LET T == Len(self.fluxes_molec)
        K == Len(ev[c].args.coeff_atm)
        r == ev[c].res[1]
    IN  /\ (Len(r.shift) = 1) <=> (K = T + 1)
        /\ (K = T + 1) =>
              /\ r.shift = <<ev[c].args.coeff_atm[K]>>
              /\ r.exponents = SubSeq(ev[c].args.coeff_atm, 1, T)

\* C13 as stated: with T templates and K coefficients, a shared shift is
\* applied to the absorber spectrum if and only if K = T + 1, using the last
\* coefficient, the first T being the exponents; for every other K there is
\* no shift.
C13_ShiftIffOneExtraCoefficient == \A c \in ModelCalls : ShiftIffOneExtra(c)

\* C13 amended: the rule holds when there is at least one template; without
\* templates the absorber block is skipped, no coefficient is an exponent or
\* a velocity, whatever their number.
C13_ShiftIffOneExtraWithTemplates ==
    \A c \in ModelCalls :
        IF Len(self.fluxes_molec) >= 1
        THEN ShiftIffOneExtra(c)
        ELSE ev[c].res[1].shift = <<>> /\ ev[c].res[1].exponents = <<>>

\* a call with two templates and three coefficients has shifted by the third
C13_Witness ==
    \E c \in ModelCalls :
        /\ Len(self.fluxes_molec) = 2
        /\ Len(ev[c].args.coeff_atm) = 3
        /\ ev[c].res[1].shift = <<ev[c].args.coeff_atm[3]>>
        /\ ev[c].res[1].status = "returned"

-----------------------------------------------------------------------------
(* Claims about the pixel range and the Jacobian step of the stages *)

\* pixel range p lies inside pixel range q
Inside(p, q) == p[1] >= p[2] \/ (p[1] >= q[1] /\ p[2] <= q[2])

\* C14: in every one of the six stages of fit_chunk the pixels handed to the
\* solver are only pixels whose log-wavelength lies inside the model's
\* log-grid reduced by the 100 km/s margin at both ends,
\* [xj[0]+100/c, xj[-1]-100/c]; no stage fits pixels outside that range.
C14_EveryStageFitsInsideTheGrid ==
    \A k \in 1..Len(runs) : Inside(runs[k].pixels, Trim(runs[k].xj))

\* C14 for the stages before line 158 (stages 1 to 3)
C14_FirstThreeStagesInsideTheGrid ==
    \A k \in 1..Len(runs) : k <= 3 => Inside(runs[k].pixels, Trim(runs[k].xj))

\* the solver call fits the RV
FitsRV(run) == \E j \in 1..Len(run.free) : run.free[j] = "v"

\* C15: every solver invocation in which the RV is a free parameter (each
\* stage of fit_chunk that fits v) is made with the relative step of the
\* numerical Jacobian, epsfcn, set to 1e-12.
C15_RVFitsUseSmallJacobianStep ==
    \A k \in 1..Len(runs) : FitsRV(runs[k]) => runs[k].epsfcn = "1e-12"

\* C15 for model.fit: every curve_fit call of model.fit has epsfcn = 1e-12
C15_ModelFitUsesSmallJacobianStep ==
    fitPc \in {"solving", "returned", "raised"} => fitOpt.epsfcn = "1e-12"

-----------------------------------------------------------------------------
(* Claims about the amplitudes of IP_mg *)

\* list amp without its entry c
Without(amp, c) == SubSeq(amp, 1, c - 1) \o SubSeq(amp, c + 1, Len(amp))

\* amp holds the squashed inputs a in their order, and the amplitude 1 at
\* position c (counted from 1)
UnitInsertedAt(amp, a, c) ==
    /\ Len(amp) = Len(a) + 1
    /\ c \in 1..Len(amp)
    /\ amp[c] = AmpUnit
    /\ Without(amp, c) = [i \in 1..Len(a) |-> Tanh(a[i])]

\* C16 as stated: for IP_mg with n >= 0 free amplitudes the list used has
\* n+1 entries, its free entries are the squashed inputs in their order and
\* lie strictly between -1 and 1, and the amplitude 1 sits at the central
\* knot, with equally many free-amplitude knots on each side of it.
C16_UnitAmplitudeIsCentral ==
    (ipRes # <<>> /\ ipRes.f = "IP_mg") =>
        LET a == ipRes.args
            amp == Amplitudes(a)
        IN  \E c \in 1..Len(amp) :
                /\ UnitInsertedAt(amp, a, c)
                /\ c - 1 = Len(amp) - c
                /\ \A i \in 1..Len(amp) :
                      i # c => (-AmpUnit < amp[i] /\ amp[i] < AmpUnit)

\* C16 amended: the list has n+1 entries, its free entries are the squashed
\* inputs in their order and lie between -1 and 1, the bounds included (tanh
\* gives exactly -1 or 1 for a large input), and the amplitude 1 sits at
\* index n div 2: equally many free amplitudes on each side for even n, one
\* fewer before it than after it for odd n.
C16_UnitAmplitudeAtHalfLength ==
    (ipRes # <<>> /\ ipRes.f = "IP_mg") =>
        LET a == ipRes.args
            amp == Amplitudes(a)
            c == Len(a) \div 2 + 1
        IN  /\ UnitInsertedAt(amp, a, c)
            /\ Len(a) % 2 = 0 => c - 1 = Len(amp) - c
            /\ Len(a) % 2 = 1 => c - 1 = Len(amp) - c - 1
            /\ \A i \in 1..Len(amp) : -AmpUnit <= amp[i] /\ amp[i] <= AmpUnit
            /\ \A i \in 1..Len(a) :
                  (-20 < a[i] /\ a[i] < 20) =>
                      (-AmpUnit < Tanh(a[i]) /\ Tanh(a[i]) < AmpUnit)

\* IP_mg was called with the most free amplitudes, the first of them large
C16_Witness ==
    /\ ipRes # <<>>
    /\ ipRes.f = "IP_mg"
    /\ Len(ipRes.args) = MaxAmp
    /\ ipRes.args[1] = 20
    /\ Len(Amplitudes(ipRes.args)) = MaxAmp + 1

-----------------------------------------------------------------------------
(* Claims about the band index table of model_bnd *)

\* model_bnd.base has assigned self.x and self.bnd
BaseRan == self # <<>> /\ self.class = "model_bnd" /\ self.based

\* one row per pixel, each row the 2h+1 consecutive indices around int(jx)
BandRowsAreCentred ==
    /\ Len(self.bnd) = Len(self.x)
    /\ \A i \in 1..Len(self.bnd) :
          LET jx == KnotBelow(self.lnwave_j,
                              Log(poly(self.x[i] - self.xcen, self.IP.bg))[2])
          IN  /\ Len(self.bnd[i]) = 2 * self.IP_hs + 1
              /\ \A k \in 1..Len(self.bnd[i]) :
                    self.bnd[i][k] = jx - self.IP_hs + (k - 1)

\* every index of the table is a position 0..N-1 of the grid
BandIndicesOnGrid ==
    \A i \in 1..Len(self.bnd) : \A k \in 1..Len(self.bnd[i]) :
        self.bnd[i][k] >= 0 /\ self.bnd[i][k] <= Len(self.lnwave_j) - 1

\* C17: after model_bnd.base the band index table has one row per pixel, each
\* row holding the 2h+1 consecutive indices from int(jx)-h to int(jx)+h, and
\* every index in the table is a valid position 0..N-1 of the log-wavelength
\* grid, none negative and none past the end.
C17_BandIndicesAreValid == BaseRan => (BandRowsAreCentred /\ BandIndicesOnGrid)

\* C17 without the range of the indices
C17_BandRowsAreCentred == BaseRan => BandRowsAreCentred

\* a call returned a product built on a row with a negative index
C17_NegativeIndexIsUsed ==
    \E c \in Finished :
        /\ self.class = "model_bnd"
        /\ ev[c].res[1].status = "returned"
        /\ \E i \in 1..Len(ev[c].res[1].bnd) : ev[c].res[1].bnd[i][1] < 0

-----------------------------------------------------------------------------
(* Claims about the orders of inst_CRIRES.py *)

\* the tables of the file on disk that hold the template of order o, as
\* <<detector, column>>
WrittenAt(o) ==
    {dc \in (1..Len(tplOut)) \X {ColumnName(n, "SPEC") : n \in 2..7} :
        \E i \in 1..Len(tplOut[dc[1]]) :
            /\ tplOut[dc[1]][i].name = dc[2]
            /\ tplOut[dc[1]][i].data = Data("tpl_all", o)}

\* every order has a detector in 1..3 and an order_drs in 2..7, no two orders
\* share the pair, and the order computed when writing is the order again
OrdersMapOneToOne ==
    /\ \A o \in Orders :
        /\ OrderDrs(o).detector \in 1..3
        /\ OrderDrs(o).order_drs \in 2..7
        /\ OrderOf(OrderDrs(o).order_drs, OrderDrs(o).detector) = o
    /\ \A o1, o2 \in Orders : OrderDrs(o1) = OrderDrs(o2) => o1 = o2

\* C18: every order o of 1..18 maps to a pair (order_drs, detector) with
\* detector in {1,2,3} and order_drs in {2,..,7}, the mapping is one-to-one,
\* o = (7 - order_drs)*3 + detector gives the order back, and a template
\* written for order o is in exactly the detector extension and column that
\* Tpl reads for o, so that Tpl returns it.
C18_TemplateIsReadBackFromWhereItWasWritten ==
    /\ OrdersMapOneToOne
    /\ tplPc > NDetectors =>
        \A o \in tplIn.keys :
            WrittenAt(o) \subseteq
                {<<OrderDrs(o).detector, ColumnName(OrderDrs(o).order_drs, "SPEC")>>}
    /\ tplRead # <<>> =>
        LET r == tplRead[1]
        IN  /\ r.detector = OrderDrs(r.order).detector
            /\ r.order_drs = OrderDrs(r.order).order_drs
            /\ WrittenAt(r.order) # {} => r.spec = Data("tpl_all", r.order)
            /\ r.spec.is = "tpl_all" => r.spec.o = r.order

\* the template of the last order, written to detector 3, is read back
C18_Witness ==
    /\ tplRead # <<>>
    /\ tplRead[1].order = OsetStop - 1
    /\ tplRead[1].order \in tplIn.keys
    /\ tplRead[1].spec = Data("tpl_all", tplRead[1].order)

\* every template handed over is in the file when the columns of all orders
\* are in the input file
C18_AllTemplatesWritten ==
    (tplPc > NDetectors /\ Len(tplIn.orders) = 6) =>
        \A o \in tplIn.keys : WrittenAt(o) # {}

====
